---- MODULE Spec2Model ----
(***************************************************************************)
(* A model of pipenv's vendored pythonfinder (PathFinder / PythonFinder):  *)
(* the class-level registries, the executable index, the three            *)
(* enumerators (POSIX PATH crawl, pyenv scan, Windows registry scan),      *)
(* register_python with its precedence rule, and the public lookups        *)
(* from_version / from_line / which / get_python_paths.                    *)
(*                                                                         *)
(* Python values are records [kind, items]: None, a str, a list of str, a  *)
(* pathlib.Path.  A dict is a function whose DOMAIN is its key set, so an  *)
(* empty dict is falsy exactly when its DOMAIN is empty (a key that a      *)
(* defaultdict created with an empty list makes the dict truthy).          *)
(* A method is an operator from a heap record to a heap record; the heap   *)
(* carries the return value (ret) and the pending exception (exc).         *)
(***************************************************************************)
EXTENDS Integers, Sequences, FiniteSets, TLC

VARIABLES
    PATH,             \* PathFinder.PATH: None or the directories of the search path
    WHICH,            \* PathFinder.WHICH
    WHICH_PYTHON,     \* PythonFinder.WHICH_PYTHON
    PYTHON_VERSIONS,  \* PythonFinder.PYTHON_VERSIONS (defaultdict(list))
    PYTHON_PATHS,     \* PythonFinder.PYTHON_PATHS
    PYTHON_ARCHS,     \* PythonFinder.PYTHON_ARCHS (defaultdict(dict))
    PYENV_VERSIONS,   \* PythonFinder.PYENV_VERSIONS (defaultdict(list))
    MAX_PYTHON,       \* PythonFinder.MAX_PYTHON
    os_name,          \* os.name of the host: "posix" or "nt"
    PYENV_INSTALLED,  \* module constant computed from the environment at import
    env_PATH,         \* os.environ['PATH'] split at os.pathsep
    pyenv_glob,       \* glob(PYENV_ROOT/versions/*): the version directories, in glob order
    win_registry,     \* environment.findall(): the installation entries, in order
    runs,             \* history: how many times each enumerator has run
    registered,       \* history: the register_python calls made, in order
    builds,           \* history: how many times _populate_which_dict has run
    last,             \* the last public call: [op, arg, arch]
    result,           \* what the last public call returned or raised
    processes,        \* the process snapshot of the host: PROCESSENTRY32 entries, in order
    shell_call,       \* the arguments of the last get_shell call: [pid, max_depth]
    threads           \* per thread, where its from_version call stands: [pc, version, saw_empty]

vars == <<PATH, WHICH, WHICH_PYTHON, PYTHON_VERSIONS, PYTHON_PATHS, PYTHON_ARCHS,
          PYENV_VERSIONS, MAX_PYTHON, os_name, PYENV_INSTALLED, env_PATH,
          pyenv_glob, win_registry, runs, registered, builds, last, result,
          processes, shell_call, threads>>

-----------------------------------------------------------------------------
(* Bounds of the model *)

\* longest os.environ['PATH'] (in directories) the initial states draw
MaxPathLen == 2
\* most enumerator runs, index rebuilds and direct register_python calls in one behaviour
MaxRuns == 2

-----------------------------------------------------------------------------
(* Python values *)

None == [kind |-> "None", items |-> <<>>]
Str(s) == [kind |-> "str", items |-> <<s>>]
List(q) == [kind |-> "list", items |-> q]
PathObj(s) == [kind |-> "Path", items |-> <<s>>]
Raised(e) == [kind |-> "raise", items |-> <<e>>]
Bool(b) == [kind |-> "bool", items |-> IF b THEN <<"True">> ELSE <<>>]

\* bool(v) as Python computes it
Truthy(v) ==
    \/ v.kind = "Path"
    \/ v.kind = "str" /\ v.items[1] # ""
    \/ v.kind = "list" /\ v.items # <<>>
    \/ v.kind = "bool" /\ v.items # <<>>

\* the text of a str or of a Path ('{0}'.format(path), str(path))
Text(v) == v.items[1]

\* None where a process id is expected (processes.get('parent_pid') without the key)
NoPid == -1

EmptyDict == <<>>
DictGet(d, k, default) == IF k \in DOMAIN d THEN d[k] ELSE default
DictSet(d, k, v) == [x \in (DOMAIN d) \cup {k} |-> IF x = k THEN v ELSE d[x]]
DictTruthy(d) == DOMAIN d # {}

-----------------------------------------------------------------------------
(* Strings *)

StartsWith(s, p) == Len(p) <= Len(s) /\ SubSeq(s, 1, Len(p)) = p
Char(s, i) == SubSeq(s, i, i)

\* positions of character c in s
Positions(s, c) == {i \in 1..Len(s) : Char(s, i) = c}
MaxOf(S) == CHOOSE m \in S : \A x \in S : x <= m
MinOf(S) == CHOOSE m \in S : \A x \in S : m <= x

\* os.path.basename
basename(p) ==
    IF Positions(p, "/") = {} THEN p
    ELSE SubSeq(p, MaxOf(Positions(p, "/")) + 1, Len(p))

\* os.path.splitext(fn)[0]: cut at the last dot, unless only dots precede it
splitext0(fn) ==
    LET dots == Positions(fn, ".")
        cut == MaxOf(dots)
    IN IF dots = {} THEN fn
       ELSE IF \A i \in 1..(cut - 1) : Char(fn, i) = "." THEN fn
       ELSE SubSeq(fn, 1, cut - 1)

\* os.sep.join([a, b])
sep_join(a, b) == a \o "/" \o b

\* str.split() on whitespace
RECURSIVE split_ws(_)
split_ws(s) ==
    IF s = "" THEN <<>>
    ELSE IF Char(s, 1) = " " THEN split_ws(SubSeq(s, 2, Len(s)))
    ELSE LET sp == Positions(s, " ")
         IN IF sp = {} THEN <<s>>
            ELSE <<SubSeq(s, 1, MinOf(sp) - 1)>> \o split_ws(SubSeq(s, MinOf(sp), Len(s)))

\* str.strip('-')
RECURSIVE strip_dash(_)
strip_dash(s) ==
    IF s = "" THEN s
    ELSE IF Char(s, 1) = "-" THEN strip_dash(SubSeq(s, 2, Len(s)))
    ELSE IF Char(s, Len(s)) = "-" THEN strip_dash(SubSeq(s, 1, Len(s) - 1))
    ELSE s

\* fnmatch of a rule '*<tail>' whose tail holds literals and '?': the name
\* must end with the tail, '?' standing for any one character
fnmatch(name, rule) ==
    LET tail == SubSeq(rule, 2, Len(rule))
        off == Len(name) - Len(tail)
    IN /\ off >= 0
       /\ \A i \in 1..Len(tail) :
              Char(tail, i) = "?" \/ Char(tail, i) = Char(name, off + i)

\* the elements of sequence q that satisfy Test, in order
RECURSIVE SelectSeqBy(_, _)
SelectSeqBy(q, keep) ==
    IF q = <<>> THEN <<>>
    ELSE (IF Head(q) \in keep THEN <<Head(q)>> ELSE <<>>) \o SelectSeqBy(Tail(q), keep)

RECURSIVE Count(_, _)
Count(q, x) ==
    IF q = <<>> THEN 0
    ELSE (IF Head(q) = x THEN 1 ELSE 0) + Count(Tail(q), x)

Range(q) == {q[i] : i \in 1..Len(q)}

-----------------------------------------------------------------------------
(* The host: file system, version probe, pyenv root, Windows registry *)

SYSTEM_ARCH == "64bit"
PYENV_ROOT == "/pyenv"

\* os.listdir(d) for the directories that exist, in the order the OS lists them
Listing ==
    [d \in {"/a", "/b", "/c"} |->
        CASE d = "/a" -> <<"python3.6", "python", "python2">>
          [] d = "/b" -> <<"python3", "python", "jython">>
          [] d = "/c" -> <<"python3.6", "python3", "pypy", "README.txt">>]

\* directories os.environ['PATH'] may name
Dirs == {"/a", "/b", "/c"}

\* per file: is it a directory, os.access X_OK, os.access R_OK, and what the
\* version probe prints for it ('' when the probe fails)
FileAttr ==
    [p \in UNION {{sep_join(d, Listing[d][i]) : i \in 1..Len(Listing[d])} :
                     d \in DOMAIN Listing} |->
        CASE p = "/a/python3.6" -> [isdir |-> FALSE, x_ok |-> TRUE, r_ok |-> TRUE, out |-> "3.6.9"]
          [] p = "/a/python" -> [isdir |-> TRUE, x_ok |-> TRUE, r_ok |-> TRUE, out |-> ""]
          [] p = "/a/python2" -> [isdir |-> FALSE, x_ok |-> FALSE, r_ok |-> FALSE, out |-> ""]
          [] p = "/b/python3" -> [isdir |-> FALSE, x_ok |-> TRUE, r_ok |-> TRUE, out |-> "3.6.9"]
          [] p = "/b/python" -> [isdir |-> FALSE, x_ok |-> TRUE, r_ok |-> TRUE, out |-> "2.7.15"]
          [] p = "/b/jython" -> [isdir |-> FALSE, x_ok |-> TRUE, r_ok |-> TRUE, out |-> ""]
          [] p = "/c/python3.6" -> [isdir |-> FALSE, x_ok |-> TRUE, r_ok |-> TRUE, out |-> "3.6.9"]
          [] p = "/c/python3" -> [isdir |-> FALSE, x_ok |-> TRUE, r_ok |-> TRUE, out |-> "3.7.0"]
          [] p = "/c/pypy" -> [isdir |-> FALSE, x_ok |-> TRUE, r_ok |-> TRUE, out |-> ""]
          [] p = "/c/README.txt" -> [isdir |-> FALSE, x_ok |-> FALSE, r_ok |-> TRUE, out |-> ""]]

isdir(p) == p \in DOMAIN Listing \/ (p \in DOMAIN FileAttr /\ FileAttr[p].isdir)
access_X(p) == p \in DOMAIN Listing \/ (p \in DOMAIN FileAttr /\ FileAttr[p].x_ok)
access_R(p) == p \in DOMAIN Listing \/ (p \in DOMAIN FileAttr /\ FileAttr[p].r_ok)
isabs(p) == StartsWith(p, "/")

\* delegator.run(version_cmd).out.strip()
probe(p) == IF p \in DOMAIN FileAttr THEN FileAttr[p].out ELSE ""

\* the binaries in <PYENV_ROOT>/versions/<name>/bin
PyenvBin ==
    [n \in {"3.7.0", "3.7.0b1", "pypy-5.8"} |->
        IF n = "pypy-5.8" THEN {"pypy"} ELSE {"python"}]

\* the orders in which glob may list <PYENV_ROOT>/versions/*
PyenvListings ==
    {<<"3.7.0", "3.7.0b1", "pypy-5.8">>, <<"3.7.0b1", "pypy-5.8", "3.7.0">>}

\* installation entries of the Windows registry (PEP 514): install path,
\* info.sys_version, info.version, and the entry's sys_architecture if it has one
Win36 == [install_path |-> "C:/Python36", sys_version |-> "3.6", version |-> "3.6.4",
          sys_architecture |-> Str("64bit")]
Win37 == [install_path |-> "C:/Python37-32", sys_version |-> "3.7.0", version |-> "3.7.0",
          sys_architecture |-> Str("32bit")]
Win27 == [install_path |-> "C:/Python27", sys_version |-> "2.7.15", version |-> "2.7.15",
          sys_architecture |-> None]
WinRegistries == {<<>>, <<Win37, Win27>>, <<Win36, Win37>>}

-----------------------------------------------------------------------------
(* packaging.version.parse, for the version forms the hosts above produce:  *)
(* N(.N)* is a Version with that release; N(.N)*{a|b|rc}N is a pre-release  *)
(* Version; anything else (the empty string, a runtime tag) is a            *)
(* LegacyVersion, whose _version is the string itself.                      *)

Digits == {"0", "1", "2", "3", "4", "5", "6", "7", "8", "9"}
IsDigits(s) == s # "" /\ \A i \in 1..Len(s) : Char(s, i) \in Digits
DigitVal(c) ==
    CASE c = "0" -> 0 [] c = "1" -> 1 [] c = "2" -> 2 [] c = "3" -> 3 [] c = "4" -> 4
      [] c = "5" -> 5 [] c = "6" -> 6 [] c = "7" -> 7 [] c = "8" -> 8 [] c = "9" -> 9

RECURSIVE ToInt(_)
ToInt(s) ==
    IF s = "" THEN 0
    ELSE 10 * ToInt(SubSeq(s, 1, Len(s) - 1)) + DigitVal(Char(s, Len(s)))

\* s.split('.')
RECURSIVE split_dot(_)
split_dot(s) ==
    LET dots == Positions(s, ".")
    IN IF dots = {} THEN <<s>>
       ELSE <<SubSeq(s, 1, MinOf(dots) - 1)>> \o split_dot(SubSeq(s, MinOf(dots) + 1, Len(s)))

\* the last release segment with a pre-release tag: digits, then a|b|rc, then digits
PreCut(seg) ==
    LET letters == {i \in 1..Len(seg) : Char(seg, i) \notin Digits}
    IN IF letters = {} THEN 0 ELSE MinOf(letters)
HasPreTag(seg) ==
    LET k == PreCut(seg)
        rest == SubSeq(seg, k, Len(seg))
    IN /\ k > 1
       /\ \/ (StartsWith(rest, "rc") /\ IsDigits(SubSeq(rest, 3, Len(rest))))
          \/ (Char(rest, 1) \in {"a", "b"} /\ IsDigits(SubSeq(rest, 2, Len(rest))))

RECURSIVE join_dot(_)
join_dot(q) ==
    IF q = <<>> THEN ""
    ELSE IF Len(q) = 1 THEN ToString(q[1])
    ELSE ToString(q[1]) \o "." \o join_dot(Tail(q))

parse_version(v) ==
    LET segs == split_dot(v)
        n == Len(segs)
        lastseg == segs[n]
        front == SubSeq(segs, 1, n - 1)
        frontOk == \A i \in 1..(n - 1) : IsDigits(segs[i])
        plain == frontOk /\ IsDigits(lastseg)
        pre == frontOk /\ ~IsDigits(lastseg) /\ HasPreTag(lastseg)
        lastnum == IF plain THEN lastseg ELSE SubSeq(lastseg, 1, PreCut(lastseg) - 1)
        release == [i \in 1..n |-> ToInt(IF i = n THEN lastnum ELSE segs[i])]
    IN IF plain \/ pre
       THEN [legacy |-> FALSE, release |-> release, is_prerelease |-> pre,
             base_version |-> join_dot(release),
             \* the _Version namedtuple: a dict key no str is equal to
             key |-> "_Version(" \o join_dot(release) \o
                     (IF pre THEN "," \o SubSeq(lastseg, PreCut(lastseg), Len(lastseg)) ELSE "")
                     \o ")"]
       ELSE [legacy |-> TRUE, release |-> <<>>, is_prerelease |-> FALSE,
             base_version |-> v, key |-> v]

-----------------------------------------------------------------------------
(* The heap: the class-level state, the histories, and the outcome of the   *)
(* call in progress                                                         *)

Heap ==
    [PATH |-> PATH, WHICH |-> WHICH, WHICH_PYTHON |-> WHICH_PYTHON,
     PYTHON_VERSIONS |-> PYTHON_VERSIONS, PYTHON_PATHS |-> PYTHON_PATHS,
     PYTHON_ARCHS |-> PYTHON_ARCHS, PYENV_VERSIONS |-> PYENV_VERSIONS,
     MAX_PYTHON |-> MAX_PYTHON, runs |-> runs, registered |-> registered,
     builds |-> builds, ret |-> None, exc |-> ""]

Raise(h, e) == [h EXCEPT !.exc = e, !.ret = None]
Return(h, v) == [h EXCEPT !.ret = v]
Failed(h) == h.exc # ""

\* the directory of sys.executable
SysExecDir == "/c"

-----------------------------------------------------------------------------
(* PathFinder *)

\* lines 86-92: one file of one directory
populate_which_file(W, path, fn) ==
    LET full_path == sep_join(path, fn)
        W1 == IF DictGet(W, fn, "") = "" THEN DictSet(W, fn, full_path) ELSE W
        base_exec == splitext0(fn)
        W2 == IF DictGet(W1, base_exec, "") = "" THEN DictSet(W1, base_exec, full_path) ELSE W1
    IN IF (access_X(full_path) \/ access_R(full_path)) /\ ~isdir(full_path)
       THEN W2
       ELSE W

RECURSIVE populate_which_files(_, _, _)
populate_which_files(W, path, files) ==
    IF files = <<>> THEN W
    ELSE populate_which_files(populate_which_file(W, path, Head(files)), path, Tail(files))

\* lines 79-85: the directories in order; os.listdir raises OSError for a
\* directory that does not exist, and the scan goes on
RECURSIVE populate_which_dirs(_, _)
populate_which_dirs(W, paths) ==
    IF paths = <<>> THEN W
    ELSE IF Head(paths) \notin DOMAIN Listing
         THEN populate_which_dirs(W, Tail(paths))
         ELSE populate_which_dirs(
                  populate_which_files(W, Head(paths), Listing[Head(paths)]), Tail(paths))

_populate_which_dict(h) ==
    IF h.PATH.kind # "list" THEN Raise(h, "AttributeError")
    ELSE [h EXCEPT !.WHICH = populate_which_dirs(h.WHICH, h.PATH.items),
                   !.builds = @ + 1]

\* line 75: cls.WHICH.get(cmd, cmd)
which_get(h, cmd) ==
    IF Failed(h) THEN h ELSE Return(h, Str(DictGet(h.WHICH, cmd, cmd)))

which(h, cmd) ==
    which_get(IF ~DictTruthy(h.WHICH) THEN _populate_which_dict(h) ELSE h, cmd)

\* PathFinder.__init__(path, system) as PythonFinder.__init__ calls it with
\* venv=None; a path is None or a list of directories (its split at os.pathsep)
PathFinder_init(h, path, system) ==
    LET search == env_PATH
        joined == IF Truthy(path)
                  THEN IF system
                       THEN IF search.kind # "list" THEN Raised("TypeError")
                            ELSE List(<<SysExecDir>> \o search.items \o path.items)
                       ELSE IF search.kind # "list" THEN Raised("TypeError")
                            ELSE List(path.items \o search.items)
                  ELSE IF system
                       THEN IF search.kind # "list" THEN Raised("TypeError")
                            ELSE List(<<SysExecDir>> \o search.items)
                       ELSE path
    IN IF joined.kind = "raise" THEN Raise(h, Text(joined))
       ELSE _populate_which_dict(
                [h EXCEPT !.PATH = IF Truthy(joined) THEN joined ELSE env_PATH])

-----------------------------------------------------------------------------
(* PythonFinder: precedence *)

\* _path_index(path): [exc, idx]; str.startswith on anything but a str, and
\* PATH.split on None, raise AttributeError
_path_index(h, path) ==
    IF h.PATH.kind # "list" \/ path.kind # "str"
    THEN [exc |-> "AttributeError", idx |-> 0]
    ELSE LET paths == h.PATH.items
             hits == {i \in 1..Len(paths) : StartsWith(Text(path), paths[i])}
         IN [exc |-> "",
             idx |-> IF hits = {} THEN Len(paths) + 1 ELSE MinOf(hits) - 1]

\* lines 241-243: the two ranks are computed, the sorted pair is dropped, and
\* the function ends without a return statement
path_ranks(index_1, index_2) ==
    IF index_1.exc # "" THEN [exc |-> index_1.exc, val |-> None]
    ELSE IF index_2.exc # "" THEN [exc |-> index_2.exc, val |-> None]
    ELSE [exc |-> "", val |-> None]

\* _path_precedence(path1, path2): [exc, val]
_path_precedence(h, path1, path2) ==
    IF h.PATH.kind # "list" THEN [exc |-> "AttributeError", val |-> None]
    ELSE IF path1 = None /\ path2 # None THEN [exc |-> "", val |-> path1]
    ELSE IF path2 = None /\ path1 # None THEN [exc |-> "", val |-> path1]
    ELSE path_ranks(_path_index(h, path1), _path_index(h, path2))

\* lines 248-250: ordered[0][0] of a str is its first character, of a list the
\* first character of its first element; a Path has no [0]
first_of_ordered(ordered) ==
    IF ordered.exc # "" THEN ordered
    ELSE IF ~Truthy(ordered.val) THEN [exc |-> "", val |-> None]
    ELSE IF ordered.val.kind = "Path" THEN [exc |-> "TypeError", val |-> None]
    ELSE IF ordered.val.items[1] = "" THEN [exc |-> "IndexError", val |-> None]
    ELSE [exc |-> "", val |-> Str(Char(ordered.val.items[1], 1))]

\* path_precedence(path1, path2): [exc, val]
path_precedence(h, path1, path2) ==
    first_of_ordered(_path_precedence(h, path1, path2))

-----------------------------------------------------------------------------
(* PythonFinder.register_python *)

\* cls.PYTHON_VERSIONS[key].append(x) keeping one copy of each version
versions_append_dedup(d, key, x) ==
    LET cur == DictGet(d, key, List(<<>>))
    IN IF cur.kind # "list" THEN [exc |-> "AttributeError", d |-> d]
       ELSE [exc |-> "",
             d |-> DictSet(d, key,
                           IF x \in Range(cur.items) THEN cur ELSE List(Append(cur.items, x)))]

\* cls.PYTHON_VERSIONS[key].append(x): the defaultdict makes the missing list;
\* a str stored under the key has no append
versions_append(d, key, x) ==
    LET cur == DictGet(d, key, List(<<>>))
    IN IF cur.kind # "list" THEN [exc |-> "AttributeError", d |-> d]
       ELSE [exc |-> "", d |-> DictSet(d, key, List(Append(cur.items, x)))]

\* lines 320-322: the MAX_PYTHON slot, given the outcome of the second comparison
legacy_max(h, second, path, key) ==
    IF second.exc # "" THEN Raise(h, second.exc)
    ELSE IF second.val = path
         THEN [h EXCEPT !.MAX_PYTHON = DictSet(@, key, Str(key))]
         ELSE h

\* lines 314-319: the exact slot, the reverse map and the architecture
\* sub-map, given the outcome of the first comparison
legacy_slots(h, first, path, key, arch) ==
    IF first.exc # "" THEN Raise(h, first.exc)
    ELSE IF first.val = path
         THEN [h EXCEPT !.PYTHON_VERSIONS = DictSet(@, key, path),
                        !.PYTHON_PATHS = DictSet(@, Text(path), key),
                        !.PYTHON_ARCHS =
                            DictSet(@, key, DictSet(DictGet(@, key, EmptyDict), arch, path))]
         ELSE h

\* lines 320-322 after lines 314-319; current_max_path was read at line 311
legacy_then_max(h1, current_max_path, path, key) ==
    IF Failed(h1) THEN h1
    ELSE legacy_max(h1, path_precedence(h1, current_max_path, path), path, key)

\* lines 311-322: parsed_version._version is a str (a LegacyVersion)
register_legacy(h, path, key, arch) ==
    legacy_then_max(
        legacy_slots(h, path_precedence(h, DictGet(h.PYTHON_VERSIONS, key, None), path),
                     path, key, arch),
        DictGet(h.MAX_PYTHON, key, None), path, key)

\* lines 327-328: the major list, after the major.minor list
release_major(h, a1, major, full_version) ==
    IF a1.exc # "" THEN Raise(h, a1.exc)
    ELSE LET a2 == versions_append(a1.d, major, full_version)
         IN IF a2.exc # "" THEN Raise([h EXCEPT !.PYTHON_VERSIONS = a1.d], a2.exc)
            ELSE [h EXCEPT !.PYTHON_VERSIONS = a2.d]

\* lines 323-328: parsed_version._version is a structured release
register_release(h, path, full_version, release) ==
    release_major(
        [h EXCEPT !.PYTHON_PATHS = DictSet(@, Text(path), full_version)],
        versions_append(h.PYTHON_VERSIONS,
                        join_dot(SubSeq(release, 1, IF Len(release) < 2 THEN Len(release) ELSE 2)),
                        full_version),
        ToString(release[1]), full_version)

\* lines 310-328, the version parsed
register_parsed(h, path, full_version, parsed_version, arch) ==
    IF parsed_version.legacy
    THEN register_legacy(h, path, parsed_version.key, arch)
    ELSE register_release(h, path, full_version, parsed_version.release)

\* register_python(path, full_version, pre, pyenv, arch); pre and pyenv are
\* read by nothing after line 324.  The call is logged as it is received.
register_python(h, path, full_version, pre, pyenv, arch) ==
    register_parsed(
        [h EXCEPT !.registered =
            Append(@, [path |-> Text(path), version |-> full_version,
                       pre |-> pre, arch |-> arch])],
        path, full_version, parse_version(full_version),
        IF ~Truthy(arch) THEN SYSTEM_ARCH ELSE Text(arch))

-----------------------------------------------------------------------------
(* The POSIX PATH crawl: _populate_python_versions *)

match_rules == <<"*python", "*python?", "*python?.?", "*python?.?m">>

\* os.environ.get('PATHEXT', '').split(os.pathsep), empty entries dropped;
\* the variable is not set on the hosts modelled
exts == <<>>

\* glob(os.sep.join([path, 'python*'])), in listing order
glob_pythons(path) ==
    IF path \notin DOMAIN Listing THEN <<>>
    ELSE LET names == Listing[path]
             kept == SelectSeqBy(names, {fn \in Range(names) : StartsWith(fn, "python")})
         IN [i \in 1..Len(kept) |-> sep_join(path, kept[i])]

\* [match for rule in match_rules for match in fnmatch.filter(pythons, rule)]
RECURSIVE filter_rules(_, _)
filter_rules(pythons, rules) ==
    IF rules = <<>> THEN <<>>
    ELSE SelectSeqBy(pythons, {m \in Range(pythons) : fnmatch(m, Head(rules))})
             \o filter_rules(pythons, Tail(rules))

\* [executable + e for e in exts if os.access(executable + e, os.X_OK)]
RECURSIVE with_exts(_, _)
with_exts(executable, es) ==
    IF es = <<>> THEN <<>>
    ELSE (IF access_X(executable \o Head(es)) THEN <<executable \o Head(es)>> ELSE <<>>)
             \o with_exts(executable, Tail(es))

\* lines 282-283: WHICH_PYTHON[exec_name], given the comparison with the path
\* it holds
which_python_update(h, known, prec, exec_name, executable) ==
    IF prec.exc # "" THEN Raise(h, prec.exc)
    ELSE IF known = "" \/ prec.val = Str(executable)
         THEN [h EXCEPT !.WHICH_PYTHON = DictSet(@, exec_name, executable)]
         ELSE h

\* lines 279-287 for one executable: c is [h, runtime_execs]
crawl_exec(c, executable, exec_name, known) ==
    [h |-> which_python_update(
               c.h, known,
               IF known = "" THEN [exc |-> "", val |-> None]
               ELSE path_precedence(c.h, Str(known), Str(executable)),
               exec_name, executable),
     runtime_execs |->
         (IF access_X(executable) THEN Append(c.runtime_execs, executable)
          ELSE c.runtime_execs) \o with_exts(executable, exts)]

\* lines 278-287 over the executables of one directory
RECURSIVE crawl_execs(_, _)
crawl_execs(c, execs) ==
    IF execs = <<>> \/ Failed(c.h) THEN c
    ELSE crawl_execs(
             crawl_exec(c, Head(execs), basename(Head(execs)),
                        DictGet(c.h.WHICH_PYTHON, basename(Head(execs)), "")),
             Tail(execs))

\* lines 273-287 over the directories of PATH
RECURSIVE crawl_dirs(_, _)
crawl_dirs(c, paths) ==
    IF paths = <<>> \/ Failed(c.h) THEN c
    ELSE crawl_dirs(crawl_execs(c, filter_rules(glob_pythons(Head(paths)), match_rules)),
                    Tail(paths))

\* lines 288-291: probe and register every runtime found
RECURSIVE register_runtimes(_, _)
register_runtimes(h, pythons) ==
    IF pythons = <<>> \/ Failed(h) THEN h
    ELSE register_runtimes(
             register_python(h, Str(Head(pythons)), probe(Head(pythons)),
                             Bool(FALSE), Bool(FALSE), None),
             Tail(pythons))

register_crawled(c) == register_runtimes(c.h, c.runtime_execs)

_populate_python_versions(h) ==
    IF h.PATH.kind # "list" THEN Raise([h EXCEPT !.runs.crawl = @ + 1], "AttributeError")
    ELSE register_crawled(
             crawl_dirs([h |-> [h EXCEPT !.runs.crawl = @ + 1], runtime_execs |-> <<>>],
                        h.PATH.items))

-----------------------------------------------------------------------------
(* The pyenv scan: populate_pyenv_runtimes *)

pyenv_runtimes == <<"pypy", "ipy", "jython", "pyston">>

\* lines 340-345: the interpreter of one version directory
pyenv_runtime(name) ==
    LET bin_path == sep_join(sep_join(sep_join(PYENV_ROOT, "versions"), name), "bin")
        exes == SelectSeqBy(pyenv_runtimes, PyenvBin[name])
    IN IF "python" \in PyenvBin[name] \/ exes = <<>>
       THEN sep_join(bin_path, "python")
       ELSE sep_join(bin_path, exes[1])

\* line 338: skip a pre-release whose base version PYENV_VERSIONS already holds
pyenv_skip(h, parsed_version) ==
    /\ parsed_version.is_prerelease
    /\ Truthy(DictGet(h.PYENV_VERSIONS, parsed_version.base_version, None))

\* lines 337-346 for one version directory
pyenv_dir(h, name, parsed_version) ==
    IF pyenv_skip(h, parsed_version) THEN h
    ELSE register_python(h, Str(pyenv_runtime(name)), parsed_version.base_version,
                         Bool(parsed_version.is_prerelease), Bool(TRUE), None)

RECURSIVE pyenv_dirs(_, _)
pyenv_dirs(h, names) ==
    IF names = <<>> \/ Failed(h) THEN h
    ELSE pyenv_dirs(pyenv_dir(h, Head(names), parse_version(Head(names))), Tail(names))

populate_pyenv_runtimes(h) ==
    pyenv_dirs([h EXCEPT !.runs.pyenv = @ + 1], pyenv_glob)

-----------------------------------------------------------------------------
(* The Windows registry scan: _populate_windows_python_versions *)

\* lines 262-264: first writer of each of the three keys keeps it
RECURSIVE win_keys(_, _, _)
win_keys(d, keys, path) ==
    IF keys = <<>> THEN d
    ELSE win_keys(IF ~Truthy(DictGet(d, Head(keys), None))
                  THEN DictSet(d, Head(keys), Str(path)) ELSE d,
                  Tail(keys), path)

\* getattr(version_object, 'sys_architecture', SYSTEM_ARCH)
win_architecture(version_object) ==
    IF version_object.sys_architecture = None THEN SYSTEM_ARCH
    ELSE Text(version_object.sys_architecture)

\* lines 258-265 for one entry; line 265 passes the architecture as the third
\* positional argument of register_python, which is pre
win_entry(h, version_object, path) ==
    register_python(
        [h EXCEPT !.PYTHON_VERSIONS =
            win_keys(@, <<version_object.sys_version, version_object.version,
                          win_architecture(version_object)>>, path)],
        PathObj(path), version_object.version, Str(win_architecture(version_object)),
        Bool(FALSE), None)

RECURSIVE win_entries(_, _)
win_entries(h, versions) ==
    IF versions = <<>> \/ Failed(h) THEN h
    ELSE win_entries(
             win_entry(h, Head(versions), sep_join(Head(versions).install_path, "python.exe")),
             Tail(versions))

_populate_windows_python_versions(h) ==
    win_entries([h EXCEPT !.runs.win = @ + 1], win_registry)

-----------------------------------------------------------------------------
(* PythonFinder: lookups *)

\* line 196: cls.PYTHON_VERSIONS.get(cls.MAX_PYTHON.get(version, version))
version_guess(h, version) ==
    DictGet(h.PYTHON_VERSIONS, Text(DictGet(h.MAX_PYTHON, version, Str(version))), None)

\* line 303: PYENV_VERSIONS[version] makes the missing key
pyenv_read(h, version) ==
    IF Failed(h) THEN h
    ELSE Return([h EXCEPT !.PYENV_VERSIONS =
                     DictSet(@, version, DictGet(@, version, List(<<>>)))],
                DictGet(h.PYENV_VERSIONS, version, List(<<>>)))

from_pyenv(h, version) ==
    pyenv_read(IF ~DictTruthy(h.PYENV_VERSIONS) THEN populate_pyenv_runtimes(h) ELSE h,
               version)

\* line 297
crawl_read(h, version) ==
    IF Failed(h) THEN h ELSE Return(h, DictGet(h.PYTHON_VERSIONS, version, None))

_crawl_path_for_version(h, version) ==
    crawl_read(IF ~DictTruthy(h.PYTHON_VERSIONS) THEN _populate_python_versions(h) ELSE h,
               version)

\* lines 220-222: PYTHON_ARCHS[version] makes the missing sub-map, and [arch]
\* on a sub-map without that key raises KeyError; PYTHON_VERSIONS[version]
\* makes the missing list
windows_read(h, version, arch) ==
    IF Failed(h) THEN h
    ELSE IF Truthy(arch)
         THEN LET sub == DictGet(h.PYTHON_ARCHS, version, EmptyDict)
                  h2 == [h EXCEPT !.PYTHON_ARCHS = DictSet(@, version, sub)]
              IN IF Text(arch) \in DOMAIN sub THEN Return(h2, sub[Text(arch)])
                 ELSE Raise(h2, "KeyError")
         ELSE Return([h EXCEPT !.PYTHON_VERSIONS =
                          DictSet(@, version, DictGet(@, version, List(<<>>)))],
                     DictGet(h.PYTHON_VERSIONS, version, List(<<>>)))

from_windows_finder(h, version, arch) ==
    windows_read(IF ~DictTruthy(h.PYTHON_VERSIONS) THEN _populate_windows_python_versions(h)
                 ELSE h,
                 version, arch)

\* lines 212-214: Path(path) of a truthy value that is no Path; of a list it
\* raises TypeError
wrap_path(h) ==
    IF Failed(h) \/ ~Truthy(h.ret) \/ h.ret.kind = "Path" THEN h
    ELSE IF h.ret.kind = "str" THEN Return(h, PathObj(Text(h.ret)))
    ELSE Raise(h, "TypeError")

\* lines 207-209
posix_pyenv(h, full_version) ==
    IF Failed(h) THEN h ELSE from_pyenv(h, full_version)

\* lines 206-211, after the crawl of lines 204-205
posix_lookup(h, full_version) ==
    IF Failed(h) THEN h
    ELSE IF PYENV_INSTALLED
         THEN posix_pyenv(IF ~DictTruthy(h.PYENV_VERSIONS) THEN populate_pyenv_runtimes(h)
                          ELSE h,
                          full_version)
         ELSE _crawl_path_for_version(h, full_version)

\* lines 202-211: the POSIX branch
from_version_posix(h, version) ==
    posix_lookup(IF ~DictTruthy(h.PYTHON_VERSIONS) THEN _populate_python_versions(h) ELSE h,
                 parse_version(version).base_version)

from_version(h, version, architecture) ==
    IF Truthy(version_guess(h, version)) THEN Return(h, version_guess(h, version))
    ELSE IF os_name = "nt"
         THEN wrap_path(from_windows_finder(h, version, architecture))
         ELSE wrap_path(from_version_posix(h, version))

\* lines 170-175: the launcher line and the bare name
from_line_py(h, python, windows_finder) ==
    IF /\ Len(windows_finder) > 1
       /\ windows_finder[1] = "py"
       /\ StartsWith(windows_finder[2], "-")
    THEN IF split_ws(strip_dash(windows_finder[2])) = <<>> THEN Raise(h, "IndexError")
         ELSE from_version(h, split_ws(strip_dash(windows_finder[2]))[1], None)
    ELSE IF DictGet(h.WHICH_PYTHON, python, "") # ""
         THEN Return(h, Str(h.WHICH_PYTHON[python]))
         ELSE which(h, python)

\* from_line that asks the registry before it looks at the token
from_line_registry_first(h, python) ==
    IF StartsWith(python, "py") THEN from_line_py(h, python, split_ws(python))
    ELSE _crawl_path_for_version(h, python)

\* from_line(python); a token that does not start with 'py' falls off the
\* end of the function, which returns None
from_line(h, python) ==
    IF isabs(python) /\ access_X(python) THEN Return(h, Str(python))
    ELSE IF StartsWith(python, "py") THEN from_line_py(h, python, split_ws(python))
    ELSE Return(h, None)

\* line 156: the returned dict is PYTHON_PATHS itself
python_paths_read(h) ==
    IF Failed(h) THEN h ELSE Return(h, [kind |-> "dict", items |-> <<"PYTHON_PATHS">>])

get_python_paths(h) ==
    python_paths_read(
        IF DictTruthy(h.PYTHON_PATHS) THEN h
        ELSE IF os_name = "nt" THEN _populate_windows_python_versions(h)
        ELSE _populate_python_versions(h))

-----------------------------------------------------------------------------
(* Initial states and actions *)

\* search paths of 1..MaxPathLen distinct directories
EnvPaths ==
    {q \in UNION {[1..n -> Dirs] : n \in 1..MaxPathLen} :
        \A i, j \in 1..Len(q) : i # j => q[i] # q[j]}

NoRuns == [crawl |-> 0, pyenv |-> 0, win |-> 0]

\* the class-level state at import (lines 41-42, 98-103), before any constructor
Imported ==
    [PATH |-> None, WHICH |-> EmptyDict, WHICH_PYTHON |-> EmptyDict,
     PYTHON_VERSIONS |-> EmptyDict, PYTHON_PATHS |-> EmptyDict,
     PYTHON_ARCHS |-> EmptyDict, PYENV_VERSIONS |-> EmptyDict,
     MAX_PYTHON |-> EmptyDict, runs |-> NoRuns, registered |-> <<>>,
     builds |-> 0, ret |-> None, exc |-> ""]

\* the heap becomes the state, and the call's outcome the result
CommitHeap(h, op, arg, arch) ==
    /\ PATH' = h.PATH
    /\ WHICH' = h.WHICH
    /\ WHICH_PYTHON' = h.WHICH_PYTHON
    /\ PYTHON_VERSIONS' = h.PYTHON_VERSIONS
    /\ PYTHON_PATHS' = h.PYTHON_PATHS
    /\ PYTHON_ARCHS' = h.PYTHON_ARCHS
    /\ PYENV_VERSIONS' = h.PYENV_VERSIONS
    /\ MAX_PYTHON' = h.MAX_PYTHON
    /\ runs' = h.runs
    /\ registered' = h.registered
    /\ builds' = h.builds
    /\ last' = [op |-> op, arg |-> arg, arch |-> arch]
    /\ result' = IF Failed(h) THEN Raised(h.exc) ELSE h.ret
    /\ UNCHANGED <<os_name, PYENV_INSTALLED, env_PATH, pyenv_glob, win_registry, processes>>

\* a call made outside get_shell and outside the two threads
Commit(h, op, arg, arch) ==
    /\ CommitHeap(h, op, arg, arch)
    /\ UNCHANGED <<shell_call, threads>>

\* the two threads of a multi-threaded caller
Threads == {"t1", "t2"}
NoThreads == [t \in Threads |-> [pc |-> "idle", version |-> "", saw_empty |-> FALSE]]

\* no get_shell call made yet
NoShellCall == [pid |-> NoPid, max_depth |-> 0]

\* the state after PythonFinder() on a host whose PATH is set
InitHost ==
    /\ env_PATH \in {List(q) : q \in EnvPaths}
    /\ LET h == PathFinder_init(Imported, None, FALSE)
       IN /\ PATH = h.PATH
          /\ WHICH = h.WHICH
          /\ builds = h.builds
    /\ WHICH_PYTHON = EmptyDict
    /\ PYTHON_VERSIONS = EmptyDict
    /\ PYTHON_PATHS = EmptyDict
    /\ PYTHON_ARCHS = EmptyDict
    /\ PYENV_VERSIONS = EmptyDict
    /\ MAX_PYTHON = EmptyDict
    /\ runs = NoRuns
    /\ registered = <<>>
    /\ last = [op |-> "PythonFinder", arg |-> "", arch |-> None]
    /\ result = None
    /\ shell_call = NoShellCall
    /\ threads = NoThreads

\* enumerator runs and index builds made since the constructor returned
TotalRuns == runs.crawl + runs.pyenv + runs.win + (builds - 1)

QueryVersions == {"3.6", "3.7.0", "3.9"}
QueryArchs == {None, Str("64bit")}
Tokens == {"/a/python3.6", "py -3.9", "python3", "python9", "jython"}

FromVersion ==
    \E version \in QueryVersions, architecture \in QueryArchs :
        /\ TotalRuns < MaxRuns
        /\ Commit(from_version(Heap, version, architecture), "from_version", version,
                  architecture)

FromLine ==
    \E python \in Tokens :
        /\ TotalRuns < MaxRuns
        /\ Commit(from_line(Heap, python), "from_line", python, None)

GetPythonPaths ==
    /\ TotalRuns < MaxRuns
    /\ Commit(get_python_paths(Heap), "get_python_paths", "", None)

\* a host is POSIX without pyenv, POSIX with pyenv, or Windows
Init ==
    /\ os_name \in {"posix", "nt"}
    /\ PYENV_INSTALLED \in BOOLEAN
    /\ os_name = "nt" => ~PYENV_INSTALLED
    /\ pyenv_glob \in IF PYENV_INSTALLED THEN PyenvListings ELSE {<<>>}
    /\ win_registry \in IF os_name = "nt" THEN WinRegistries ELSE {<<>>}
    /\ processes = <<>>
    /\ InitHost

Next == FromVersion \/ FromLine \/ GetPythonPaths

Spec == Init /\ [][Next]_vars

-----------------------------------------------------------------------------
(* The executable index on its own: new finders and which *)

\* the path argument of a new finder: none, or one extra directory ("/nx"
\* does not exist)
FinderPaths == {None, List(<<"/b">>), List(<<"/nx">>)}
Names == {"python3", "python3.6", "python", "README", "ruby", "/a/python"}

NewFinder ==
    \E path \in FinderPaths, system \in BOOLEAN :
        /\ TotalRuns < MaxRuns
        /\ Commit(PathFinder_init(Heap, path, system), "PythonFinder",
                  IF path = None THEN "" ELSE path.items[1], Bool(system))

Which ==
    \E cmd \in Names :
        /\ TotalRuns < MaxRuns
        /\ Commit(which(Heap, cmd), "which", cmd, None)

InitPosix ==
    /\ os_name = "posix"
    /\ PYENV_INSTALLED = FALSE
    /\ pyenv_glob = <<>>
    /\ win_registry = <<>>
    /\ processes = <<>>
    /\ InitHost

NextIndex == NewFinder \/ Which

SpecIndex == InitPosix /\ [][NextIndex]_vars

-----------------------------------------------------------------------------
(* register_python on its own: candidates registered in any order *)

Candidates ==
    {[path |-> "/a/python3.6", version |-> "3.6.9", arch |-> None],
     [path |-> "/c/python3.6", version |-> "3.6.9", arch |-> None],
     [path |-> "/b/python3", version |-> "3.6.9", arch |-> Str("32bit")],
     [path |-> "/c/python3", version |-> "3.7.0", arch |-> None],
     [path |-> "/b/python", version |-> "3", arch |-> None],
     [path |-> "/b/jython", version |-> "", arch |-> None],
     [path |-> "/c/pypy", version |-> "pypy-5.8", arch |-> Str("32bit")]}

RegisterPython ==
    \E c \in Candidates :
        /\ Len(registered) <= MaxRuns
        /\ Commit(register_python(Heap, Str(c.path), c.version, Bool(FALSE), Bool(FALSE),
                                  c.arch),
                  "register_python", c.path, c.arch)

NextRegister == RegisterPython

SpecRegister == InitPosix /\ [][NextRegister]_vars

-----------------------------------------------------------------------------
(* Construction and precedence on their own, on hosts with and without PATH *)

\* the arguments path_precedence is called with: None or an executable's path
PrecedencePaths == {None, Str("/a/python3.6"), Str("/b/python3"), Str("/c/python3")}

\* the outcome of a path_precedence call, as the outcome of a call on the heap
precedence_outcome(h, ordered) ==
    IF ordered.exc # "" THEN Raise(h, ordered.exc) ELSE Return(h, ordered.val)

PathPrecedence ==
    \E path1 \in PrecedencePaths, path2 \in PrecedencePaths :
        /\ CommitHeap(precedence_outcome(Heap, path_precedence(Heap, path1, path2)),
                      "path_precedence", IF path1 = None THEN "" ELSE Text(path1), path2)
        /\ UNCHANGED <<shell_call, threads>>

\* the state at import, before any finder is constructed; os.environ.get('PATH')
\* is None when the variable is unset
InitImported ==
    /\ os_name = "posix"
    /\ PYENV_INSTALLED = FALSE
    /\ pyenv_glob = <<>>
    /\ win_registry = <<>>
    /\ env_PATH \in {None} \cup {List(q) : q \in EnvPaths}
    /\ PATH = Imported.PATH
    /\ WHICH = Imported.WHICH
    /\ builds = Imported.builds
    /\ WHICH_PYTHON = Imported.WHICH_PYTHON
    /\ PYTHON_VERSIONS = Imported.PYTHON_VERSIONS
    /\ PYTHON_PATHS = Imported.PYTHON_PATHS
    /\ PYTHON_ARCHS = Imported.PYTHON_ARCHS
    /\ PYENV_VERSIONS = Imported.PYENV_VERSIONS
    /\ MAX_PYTHON = Imported.MAX_PYTHON
    /\ runs = Imported.runs
    /\ registered = Imported.registered
    /\ last = [op |-> "import", arg |-> "", arch |-> None]
    /\ result = None
    /\ processes = <<>>
    /\ shell_call = NoShellCall
    /\ threads = NoThreads

NextPrecedence == NewFinder \/ Which \/ PathPrecedence

SpecPrecedence == InitImported /\ [][NextPrecedence]_vars

-----------------------------------------------------------------------------
(* pew's _win_utils: the shell and the terminal emulator a process runs in *)

SHELL_NAMES == {"cmd", "powershell", "pwsh"}
EMULATOR_NAMES == {"cmder"}

\* most max_depth a get_shell call is made with
MaxDepth == 6

\* os.getpid()
CurrentPid == 10

\* the pair get_shell returns
Tuple(shell, emulator) == [kind |-> "tuple", items |-> <<shell, emulator>>]

\* one PROCESSENTRY32 of the snapshot
Entry(pid, parent, exe) ==
    [th32ProcessID |-> pid, th32ParentProcessID |-> parent, szExeFile |-> exe]

\* snapshots a host may give: a shell inside an emulator, a shell started
\* from the desktop, a deep chain whose root has exited, and a process that
\* is its own parent
Snapshots ==
    {<<Entry(0, 0, "[System Process]"), Entry(2, 0, "explorer.exe"),
       Entry(3, 2, "Cmder.exe"), Entry(5, 3, "cmd.exe"), Entry(10, 5, "python.exe")>>,
     <<Entry(2, 0, "explorer.exe"), Entry(5, 2, "powershell.exe"),
       Entry(10, 5, "python.exe")>>,
     <<Entry(3, 99, "CMD.EXE"), Entry(4, 3, "python.exe"), Entry(5, 4, "python.exe"),
       Entry(10, 5, "python")>>,
     <<Entry(2, 2, "explorer.exe"), Entry(10, 2, "pwsh.exe")>>}

\* the process ids get_shell is asked about; 0 stands for the default, None
Pids == {0, 2, 5, 10, 99}

\* str.lower() of the executable names of the snapshots
lower(exe) ==
    CASE exe = "Cmder.exe" -> "cmder.exe"
      [] exe = "CMD.EXE" -> "cmd.exe"
      [] OTHER -> exe

\* s.rsplit('.', 1)[0]
rsplit_dot0(exe) ==
    IF Positions(exe, ".") = {} THEN exe
    ELSE SubSeq(exe, 1, MaxOf(Positions(exe, ".")) - 1)

\* get_all_processes(): pid -> ['executable', 'parent_pid'], the parent_pid key
\* left out (NoPid) when th32ParentProcessID is 0; a later entry of the same
\* pid replaces an earlier one
get_all_processes(entries) ==
    [pid \in {entries[i].th32ProcessID : i \in 1..Len(entries)} |->
        LET pe == entries[MaxOf({i \in 1..Len(entries) : entries[i].th32ProcessID = pid})]
        IN [executable |-> pe.szExeFile,
            parent_pid |-> IF pe.th32ParentProcessID # 0 THEN pe.th32ParentProcessID
                           ELSE NoPid]]

\* process_dict is always a dict holding a str under 'executable'
_get_executable_name(process_dict) == rsplit_dot0(lower(process_dict.executable))

\* lines 116-128: the loop with n rounds left; proc is None for a pid the
\* snapshot does not hold, and line 126 then raises AttributeError
RECURSIVE get_shell_loop(_, _, _, _, _)
get_shell_loop(procs, pid, n, shell, emulator) ==
    IF n = 0 THEN Tuple(shell, emulator)
    ELSE IF pid \notin DOMAIN procs THEN Raised("AttributeError")
    ELSE LET name == _get_executable_name(procs[pid])
             shell1 == IF shell = "" /\ name \in SHELL_NAMES
                       THEN procs[pid].executable ELSE shell
             emulator1 == IF emulator = "" /\ name \in EMULATOR_NAMES
                          THEN procs[pid].executable ELSE emulator
         IN IF shell1 # "" /\ emulator1 # "" THEN Tuple(shell1, emulator1)
            ELSE get_shell_loop(procs, procs[pid].parent_pid, n - 1, shell1, emulator1)

\* get_shell(pid, max_depth) with shell='' and emulator=''
get_shell(pid, max_depth) ==
    get_shell_loop(get_all_processes(processes), IF pid = 0 THEN CurrentPid ELSE pid,
                   max_depth, "", "")

GetShell ==
    \E pid \in Pids, max_depth \in 0..MaxDepth :
        /\ result' = get_shell(pid, max_depth)
        /\ shell_call' = [pid |-> pid, max_depth |-> max_depth]
        /\ last' = [op |-> "get_shell", arg |-> "", arch |-> None]
        /\ UNCHANGED <<PATH, WHICH, WHICH_PYTHON, PYTHON_VERSIONS, PYTHON_PATHS,
                       PYTHON_ARCHS, PYENV_VERSIONS, MAX_PYTHON, os_name, PYENV_INSTALLED,
                       env_PATH, pyenv_glob, win_registry, runs, registered, builds,
                       processes, threads>>

InitShell ==
    /\ os_name = "nt"
    /\ PYENV_INSTALLED = FALSE
    /\ pyenv_glob = <<>>
    /\ win_registry = <<>>
    /\ processes \in Snapshots
    /\ InitHost

NextShell == GetShell

SpecShell == InitShell /\ [][NextShell]_vars

-----------------------------------------------------------------------------
(* Two threads in from_version on a POSIX host without pyenv.  A thread may  *)
(* be suspended between the test of line 204 and the call of line 205; the   *)
(* class-level registries are shared and nothing locks them.                 *)

\* line 205 in a thread that tested the registry before it was resumed, and
\* populates only if the registry is still empty
thread_crawl_rechecked(h, saw_empty) ==
    IF saw_empty /\ ~DictTruthy(h.PYTHON_VERSIONS) THEN _populate_python_versions(h) ELSE h

\* line 205: the thread acts on what its test of line 204 saw
thread_crawl(h, saw_empty) ==
    IF saw_empty THEN _populate_python_versions(h) ELSE h

\* lines 205-214 in a thread that has evaluated line 204
thread_resume(h, version, saw_empty) ==
    wrap_path(posix_lookup(thread_crawl(h, saw_empty), parse_version(version).base_version))

\* lines 196-204: the cache lookup, and on a miss the test of the registry
ThreadCall ==
    \E t \in Threads, version \in QueryVersions :
        /\ threads[t].pc = "idle"
        /\ IF Truthy(version_guess(Heap, version))
           THEN /\ threads' = [threads EXCEPT ![t] = [pc |-> "done", version |-> version,
                                                      saw_empty |-> FALSE]]
                /\ result' = version_guess(Heap, version)
                /\ last' = [op |-> "from_version", arg |-> version, arch |-> None]
           ELSE /\ threads' = [threads EXCEPT ![t] = [pc |-> "checked", version |-> version,
                                                      saw_empty |-> ~DictTruthy(PYTHON_VERSIONS)]]
                /\ UNCHANGED <<last, result>>
        /\ UNCHANGED <<PATH, WHICH, WHICH_PYTHON, PYTHON_VERSIONS, PYTHON_PATHS,
                       PYTHON_ARCHS, PYENV_VERSIONS, MAX_PYTHON, os_name, PYENV_INSTALLED,
                       env_PATH, pyenv_glob, win_registry, runs, registered, builds,
                       processes, shell_call>>

ThreadRun ==
    \E t \in Threads :
        /\ threads[t].pc = "checked"
        /\ CommitHeap(thread_resume(Heap, threads[t].version, threads[t].saw_empty),
                      "from_version", threads[t].version, None)
        /\ threads' = [threads EXCEPT ![t].pc = "done"]
        /\ UNCHANGED shell_call

NextThreads == ThreadCall \/ ThreadRun

SpecThreads == InitPosix /\ [][NextThreads]_vars

-----------------------------------------------------------------------------
(* Properties *)

Registries ==
    <<WHICH, WHICH_PYTHON, PYTHON_VERSIONS, PYTHON_PATHS, PYTHON_ARCHS, PYENV_VERSIONS,
      MAX_PYTHON>>

RegisteredPaths == {registered[i].path : i \in 1..Len(registered)}

\* the last call was from_line with a launcher line 'py -<version>'
IsLauncherLine(token) ==
    LET words == split_ws(token)
    IN Len(words) > 1 /\ words[1] = "py" /\ StartsWith(words[2], "-")
LauncherVersion(token) == strip_dash(split_ws(token)[2])

\* the version the last call asked for, if it asked for one
AskedVersion ==
    IF last.op = "from_version" THEN last.arg
    ELSE IF last.op = "from_line" /\ IsLauncherLine(last.arg) THEN LauncherVersion(last.arg)
    ELSE ""

\* no register_python call was made for version V or for a version under it
NoCandidate(V) == \A i \in 1..Len(registered) : ~StartsWith(registered[i].version, V)

NotFound(r) == r = None \/ r = List(<<>>)

\* C1: from_version(V, architecture), for every architecture argument, and
\* from_line('py -V') do not raise when no candidate of version V was registered
C1_NotFoundNeverRaises ==
    (AskedVersion # "" /\ NoCandidate(AskedVersion)) => result.kind # "raise"

\* C2: what from_version and from_line return is not-found or a path that was
\* discovered: one an enumerator registered, one the index or the crawl
\* recorded, or the accessible absolute path passed in
C2_OnlyDiscoveredPaths ==
    (last.op \in {"from_version", "from_line"} /\ result.kind # "raise") =>
        \/ NotFound(result)
        \/ /\ result.kind \in {"str", "Path"}
           /\ \/ Text(result) \in RegisteredPaths
              \/ \E n \in DOMAIN WHICH : WHICH[n] = Text(result)
              \/ \E n \in DOMAIN WHICH_PYTHON : WHICH_PYTHON[n] = Text(result)
              \/ /\ last.op = "from_line"
                 /\ Text(result) = last.arg
                 /\ isabs(last.arg) /\ access_X(last.arg)

Rank(p) == _path_index(Heap, Str(p)).idx

\* C3: once version V is registered at paths of different rank, the
\* exact-version answer for V is the registered path of the lowest rank,
\* whichever was registered first
C3_ExactSlotFollowsPathOrder ==
    \A i, j \in 1..Len(registered) :
        (/\ registered[i].version = registered[j].version
         /\ Rank(registered[i].path) < Rank(registered[j].path)
         /\ \A k \in 1..Len(registered) :
                registered[k].version = registered[i].version
                    => Rank(registered[i].path) <= Rank(registered[k].path))
        => /\ Truthy(version_guess(Heap, registered[i].version))
           /\ Text(version_guess(Heap, registered[i].version)) = registered[i].path

\* a file the index scan accepts: executable or readable, and no directory
Eligible(full_path) == (access_X(full_path) \/ access_R(full_path)) /\ ~isdir(full_path)

AllNames ==
    Names \cup UNION {UNION {{Listing[d][k], splitext0(Listing[d][k])} :
                                k \in 1..Len(Listing[d])} : d \in DOMAIN Listing}

\* C4: in an index built once from empty, a name X that is an
\* eligible file in two directories of the search path resolves to X in the
\* earlier one, and so does X without its extension
C4_EarlierDirectoryWins ==
    builds = 1 =>
        \A i, j \in 1..Len(PATH.items) : \A X \in AllNames :
            (/\ i < j
             /\ sep_join(PATH.items[i], X) \in DOMAIN FileAttr
             /\ sep_join(PATH.items[j], X) \in DOMAIN FileAttr
             /\ Eligible(sep_join(PATH.items[i], X))
             /\ Eligible(sep_join(PATH.items[j], X)))
            => /\ DictGet(WHICH, X, X) = sep_join(PATH.items[i], X)
               /\ DictGet(WHICH, splitext0(X), X) = sep_join(PATH.items[i], X)

\* C5: each enumerator runs at most once, whatever the calls made
C5_EnumeratorsRunOnce == runs.crawl <= 1 /\ runs.pyenv <= 1 /\ runs.win <= 1

\* C6: once a candidate of version V and architecture R was registered, the
\* architecture sub-map holds a path for (V, R)
C6_ArchSubMapHoldsEveryPair ==
    \A i \in 1..Len(registered) :
        LET V == registered[i].version
            R == IF Truthy(registered[i].arch) THEN Text(registered[i].arch) ELSE SYSTEM_ARCH
        IN /\ V \in DOMAIN PYTHON_ARCHS
           /\ R \in DOMAIN PYTHON_ARCHS[V]
           /\ Truthy(PYTHON_ARCHS[V][R])

\* the keys register_python appends a version to, in the order of lines 325-328
ListKeys(version) ==
    LET release == parse_version(version).release
    IN IF release = <<>> THEN <<>>
       ELSE <<join_dot(SubSeq(release, 1, IF Len(release) < 2 THEN Len(release) ELSE 2)),
              ToString(release[1])>>

\* what the registrations made so far put in the list under key, in order
RECURSIVE Appended(_, _)
Appended(calls, key) ==
    IF calls = <<>> THEN <<>>
    ELSE Appended(SubSeq(calls, 1, Len(calls) - 1), key)
             \o [n \in 1..Count(ListKeys(calls[Len(calls)].version), key) |->
                    calls[Len(calls)].version]

AllListKeys ==
    (DOMAIN PYTHON_VERSIONS) \cup UNION {Range(ListKeys(c.version)) : c \in Candidates}

C8_AbsolutePathPassesThrough ==
    [][(last'.op = "from_line" /\ isabs(last'.arg) /\ access_X(last'.arg))
       => /\ result' = Str(last'.arg)
          /\ Registries' = Registries
          /\ PATH' = PATH
          /\ runs' = runs
          /\ builds' = builds
          /\ registered' = registered]_vars

\* C8's case: the pass-through answered while the registry was still empty
C8_Witness ==
    /\ last.op = "from_line" /\ last.arg = "/a/python3.6"
    /\ result = Str("/a/python3.6")
    /\ PYTHON_VERSIONS = EmptyDict /\ PYTHON_PATHS = EmptyDict
    /\ runs = NoRuns

\* C9: a token that is neither an accessible absolute path nor a launcher
\* line is looked up as a bare name: from_line returns the path the index
\* records for it
C9_BareNameFromIndex ==
    (/\ last.op = "from_line"
     /\ ~(isabs(last.arg) /\ access_X(last.arg))
     /\ ~IsLauncherLine(last.arg)
     /\ last.arg \in DOMAIN WHICH)
    => result = Str(WHICH[last.arg])

\* C10: after a pyenv scan, nothing is registered for a pre-release directory
\* that follows the stable directory of the same base version
C10_PrereleaseAfterStableSkipped ==
    runs.pyenv >= 1 =>
        \A i, j \in 1..Len(pyenv_glob) :
            (/\ i < j
             /\ ~parse_version(pyenv_glob[i]).legacy
             /\ ~parse_version(pyenv_glob[i]).is_prerelease
             /\ parse_version(pyenv_glob[j]).is_prerelease
             /\ parse_version(pyenv_glob[j]).base_version
                    = parse_version(pyenv_glob[i]).base_version)
            => pyenv_runtime(pyenv_glob[j]) \notin RegisteredPaths

\* C11: on a host whose PATH variable is unset, constructing a finder,
\* building the index and computing a precedence all return normally
C11_NoPathNoCrash ==
    (env_PATH = None /\ last.op \in {"PythonFinder", "which", "path_precedence"})
        => result.kind # "raise"

\* what path_precedence(existing, new) is to return: new when existing is
\* None or ranks after new, existing otherwise
PreferredPath(existing, new) ==
    IF existing = None THEN new
    ELSE IF Rank(Text(new)) < Rank(Text(existing)) THEN new
    ELSE existing

\* C13: with a search path set, path_precedence(existing, new) returns new
\* when existing is None, the path of lower rank otherwise, and existing on
\* equal ranks
C13_LowerRankWins ==
    (/\ last.op = "path_precedence"
     /\ PATH.kind = "list"
     /\ last.arch # None)
    => result = PreferredPath(IF last.arg = "" THEN None ELSE Str(last.arg), last.arch)

\* C12: every path the index holds passed the executable-or-readable check
\* and is no directory, and so is every path which returns
C12_IndexHoldsOnlyFiles ==
    /\ \A name \in DOMAIN WHICH : Eligible(WHICH[name])
    /\ (last.op = "which" /\ result.kind # "raise") => Eligible(Text(result))

\* C14: after a finder is constructed, the index is the one a scan of the
\* finder's search path builds from empty, and which answers from it
C14_IndexFollowsNewSearchPath ==
    PATH.kind = "list" =>
        /\ WHICH = populate_which_dirs(EmptyDict, PATH.items)
        /\ (last.op = "which" /\ result.kind # "raise") =>
               result = Str(DictGet(populate_which_dirs(EmptyDict, PATH.items),
                                    last.arg, last.arg))

\* the paths the PATH crawl has registered with version V or a version under V
CrawlCandidates(calls, V) ==
    {calls[i].path : i \in {k \in 1..Len(calls) :
                               /\ StartsWith(calls[k].version, V)
                               /\ ~StartsWith(calls[k].path, PYENV_ROOT)}}

\* C15: on POSIX, a from_version(V) call that ran the PATH crawl returns a
\* path the crawl registered for V, if it registered one, with or without pyenv
C15_PopulateThenReturnCrawlResult ==
    [][(/\ last'.op = "from_version"
        /\ os_name = "posix"
        /\ runs'.crawl > runs.crawl
        /\ CrawlCandidates(registered', last'.arg) # {})
       => /\ result'.kind \in {"str", "Path"}
          /\ Text(result') \in CrawlCandidates(registered', last'.arg)]_vars

\* the executable of a Windows installation entry
WinPath(version_object) == sep_join(version_object.install_path, "python.exe")

\* C16: the Windows scan hands every entry's own architecture to
\* register_python as its architecture argument
C16_WindowsEntryKeepsItsArch ==
    \A i \in 1..Len(registered) : \A k \in 1..Len(win_registry) :
        registered[i].path = WinPath(win_registry[k])
            => registered[i].arch = Str(win_architecture(win_registry[k]))

\* the runtimes the PATH crawl collects from the directories of the search path
CrawlRuntimes(paths) ==
    crawl_dirs([h |-> Imported, runtime_execs |-> <<>>], paths).runtime_execs

\* C17: an enumeration goes on after a failing candidate: every listable
\* directory of the search path is in the index, a PATH crawl registers every
\* runtime it collected, and a Windows scan registers every installation entry
C17_EnumerationSurvivesFailures ==
    /\ PATH.kind = "list" =>
           \A i \in 1..Len(PATH.items) :
               PATH.items[i] \in DOMAIN Listing =>
                   \A k \in 1..Len(Listing[PATH.items[i]]) :
                       Eligible(sep_join(PATH.items[i], Listing[PATH.items[i]][k]))
                           => Listing[PATH.items[i]][k] \in DOMAIN WHICH
    /\ (runs.crawl >= 1 /\ PATH.kind = "list") =>
           Range(CrawlRuntimes(PATH.items)) \subseteq RegisteredPaths
    /\ runs.win >= 1 =>
           \A k \in 1..Len(win_registry) : WinPath(win_registry[k]) \in RegisteredPaths

\* C20: a lookup for a version no candidate was registered for adds no key
\* for that version to PYTHON_VERSIONS, PYENV_VERSIONS or PYTHON_ARCHS
C20_FailedLookupAddsNoKey ==
    [][(/\ last'.op = "from_version"
        /\ \A i \in 1..Len(registered') :
               ~StartsWith(registered'[i].version, last'.arg))
       => /\ (DOMAIN PYTHON_VERSIONS') \cap {last'.arg} \subseteq DOMAIN PYTHON_VERSIONS
          /\ (DOMAIN PYENV_VERSIONS') \cap {last'.arg} \subseteq DOMAIN PYENV_VERSIONS
          /\ (DOMAIN PYTHON_ARCHS') \cap {last'.arg} \subseteq DOMAIN PYTHON_ARCHS]_vars

\* the processes a walk of at most n steps from pid visits, along parent links
RECURSIVE Ancestry(_, _, _)
Ancestry(procs, pid, n) ==
    IF n = 0 \/ pid \notin DOMAIN procs THEN <<>>
    ELSE <<pid>> \o Ancestry(procs, procs[pid].parent_pid, n - 1)

\* the executable of the nearest process of the chain whose name is in names
Nearest(procs, chain, names) ==
    LET hits == {i \in 1..Len(chain) : _get_executable_name(procs[chain[i]]) \in names}
    IN IF hits = {} THEN "" ELSE procs[chain[MinOf(hits)]].executable

\* C18: get_shell returns normally, with the nearest shell and the nearest
\* emulator among the at most max_depth processes from pid up, also when the
\* chain ends before max_depth
C18_GetShellWalksAncestors ==
    last.op = "get_shell" =>
        LET procs == get_all_processes(processes)
            chain == Ancestry(procs, IF shell_call.pid = 0 THEN CurrentPid ELSE shell_call.pid,
                              shell_call.max_depth)
        IN result = Tuple(Nearest(procs, chain, SHELL_NAMES),
                          Nearest(procs, chain, EMULATOR_NAMES))

\* how often path p was registered
TimesRegistered(p) == Cardinality({i \in 1..Len(registered) : registered[i].path = p})

\* C19: when both threads passed the test of the empty registry, both ran
\* the PATH crawl: once both are done every runtime of the search path is
\* registered at least twice, and its version is at least twice in its
\* major.minor list and in its major list
C19_RaceRegistersTwice ==
    (\A t \in Threads : threads[t].pc = "done" /\ threads[t].saw_empty)
    => /\ runs.crawl >= Cardinality(Threads)
       /\ \A p \in Range(CrawlRuntimes(PATH.items)) : TimesRegistered(p) >= Cardinality(Threads)
       /\ \A i \in 1..Len(registered) : \A key \in Range(ListKeys(registered[i].version)) :
              Count(DictGet(PYTHON_VERSIONS, key, List(<<>>)).items, registered[i].version)
                  >= Cardinality(Threads)

\* C19's case: both threads saw the registry empty, both crawled /a, and
\* 3.6.9 of /a/python3.6 is twice in each of its lists
C19_Witness ==
    /\ \A t \in Threads : threads[t].pc = "done" /\ threads[t].saw_empty
    /\ PATH.items = <<"/a">>
    /\ runs.crawl = 2
    /\ TimesRegistered("/a/python3.6") = 2
    /\ DictGet(PYTHON_VERSIONS, "3.6", List(<<>>)) = List(<<"3.6.9", "3.6.9">>)
    /\ DictGet(PYTHON_VERSIONS, "3", List(<<>>)) = List(<<"3.6.9", "3.6.9">>)

====
